---------------------------- MODULE Spec2Model ----------------------------
(***************************************************************************)
(* FileDB: a role store kept as one JSON document behind an Fs (RealFs or  *)
(* MemFs).  Every CRUD call is an async function that suspends at its      *)
(* awaits, so calls of several clients interleave at those points.         *)
(*                                                                         *)
(* Texts are sequences of tokens (the significant lexemes of the JSON      *)
(* document; white space, commas and colons carry no information and are   *)
(* left out), so that a file can hold a proper prefix of a document.       *)
(* A JavaScript object is an insertion-ordered sequence of [k, v] entries. *)
(* Role ids range over ordinary keys: strings that name a member of        *)
(* Object.prototype ("__proto__", "constructor", ...) are outside Ids.     *)
(***************************************************************************)
EXTENDS Integers, Sequences, FiniteSets, TLC

\* ---------------------------------------------------------------- bounds
Procs == {"p1", "p2"}          \* concurrent callers of one FileDB
Ids == {"a", "b"}              \* role ids callers use
Names == {"n1", "n2"}          \* values of the other scalar fields
MaxCalls == 2                  \* calls clients make in one behaviour
MaxOverlap == 1                \* of them, calls made while another is in progress
MaxCrashes == 1                \* process restarts in one behaviour
ChunkLen == 8                  \* tokens one step of writeFile puts on disk

\* ------------------------------------------------------------ RoleData
Undef == "<undefined>"         \* the value of a property that is not set
Keys == Ids \cup {"undefined"}

\* base.ts RoleData: optional scalar fields (id, and name standing for the
\* other fields, which the store treats alike).
RoleData == [id : Ids \cup {Undef}, name : Names \cup {Undef}]

\* The property key JavaScript derives from roleData.id in db.roles[roleData.id].
PropertyKey(v) == IF v = Undef THEN "undefined" ELSE v

\* DatabaseSchema: { roles?: Record<string, RoleData> }.
EmptyObject == [hasRoles |-> FALSE, roles |-> <<>>]
emptyDb == [hasRoles |-> TRUE, roles |-> <<>>]

\* ------------------------------------------------------ object properties
HasKey(roles, k) == \E i \in 1..Len(roles) : roles[i].k = k

IndexOf(roles, k) == CHOOSE i \in 1..Len(roles) : roles[i].k = k

\* Mutant of SetProp: an existing property keeps its old value.
SetPropKeepsOld(roles, k, v) ==
    IF HasKey(roles, k) THEN roles ELSE Append(roles, [k |-> k, v |-> v])

\* obj[k] = v: an existing property keeps its place, a new one is appended.
SetProp(roles, k, v) ==
    IF HasKey(roles, k)
      THEN [roles EXCEPT ![IndexOf(roles, k)] = [k |-> k, v |-> v]]
      ELSE Append(roles, [k |-> k, v |-> v])

\* Mutant of DeleteProp: the property stays.
DeletePropKeeps(roles, k) == roles

\* delete obj[k]
DeleteProp(roles, k) ==
    IF HasKey(roles, k)
      THEN LET i == IndexOf(roles, k)
           IN  SubSeq(roles, 1, i - 1) \o SubSeq(roles, i + 1, Len(roles))
      ELSE roles

\* ------------------------------------------------------------------ JSON
FieldTokens(name, v) == IF v = Undef THEN <<>> ELSE <<name, v>>

RoleTokens(r) ==
    <<"{">> \o FieldTokens("id", r.id) \o FieldTokens("name", r.name) \o <<"}">>

RECURSIVE EntriesTokens(_)
EntriesTokens(roles) ==
    IF roles = <<>> THEN <<>>
    ELSE <<roles[1].k>> \o RoleTokens(roles[1].v) \o EntriesTokens(Tail(roles))

\* JSON.stringify(db, null, 2): own properties in insertion order, properties
\* whose value is undefined left out.
Stringify(db) ==
    <<"{">>
    \o (IF db.hasRoles THEN <<"roles", "{">> \o EntriesTokens(db.roles) \o <<"}">>
        ELSE <<>>)
    \o <<"}">>

Tok(text, i) == IF i \in 1..Len(text) THEN text[i] ELSE "<eof>"

\* The members of one role object, from position i (after its "{").
RECURSIVE ParseFields(_, _, _)
ParseFields(text, i, acc) ==
    IF Tok(text, i) = "}" THEN [ok |-> TRUE, next |-> i + 1, v |-> acc]
    ELSE IF Tok(text, i) = "id" /\ Tok(text, i + 1) \in Ids
      THEN ParseFields(text, i + 2, [acc EXCEPT !.id = Tok(text, i + 1)])
    ELSE IF Tok(text, i) = "name" /\ Tok(text, i + 1) \in Names
      THEN ParseFields(text, i + 2, [acc EXCEPT !.name = Tok(text, i + 1)])
    ELSE [ok |-> FALSE, next |-> 0, v |-> acc]

\* The members of the roles object, from position i (after its "{").
RECURSIVE ParseEntries(_, _, _)
ParseEntries(text, i, acc) ==
    IF Tok(text, i) = "}" THEN [ok |-> TRUE, next |-> i + 1, roles |-> acc]
    ELSE IF Tok(text, i) \in Keys /\ Tok(text, i + 1) = "{"
      THEN LET f == ParseFields(text, i + 2, [id |-> Undef, name |-> Undef])
           IN  IF f.ok
                 THEN ParseEntries(text, f.next, SetProp(acc, Tok(text, i), f.v))
                 ELSE [ok |-> FALSE, next |-> 0, roles |-> acc]
    ELSE [ok |-> FALSE, next |-> 0, roles |-> acc]

\* JSON.parse(content) as DatabaseSchema: ok is FALSE where JSON.parse throws.
Parse(text) ==
    IF Tok(text, 1) # "{" THEN [ok |-> FALSE, db |-> EmptyObject]
    ELSE IF Tok(text, 2) = "}"
      THEN [ok |-> Len(text) = 2, db |-> EmptyObject]
    ELSE IF Tok(text, 2) = "roles" /\ Tok(text, 3) = "{"
      THEN LET e == ParseEntries(text, 4, <<>>)
           IN  IF e.ok /\ Tok(text, e.next) = "}" /\ Len(text) = e.next
                 THEN [ok |-> TRUE, db |-> [hasRoles |-> TRUE, roles |-> e.roles]]
                 ELSE [ok |-> FALSE, db |-> EmptyObject]
    ELSE [ok |-> FALSE, db |-> EmptyObject]

\* ------------------------------------------------------------ file system
TmpDir == "tmp"                \* os.tmpdir(), where tmp.fileSync() creates files
DataDir == ".data"             \* the directory of the default dbPath
Dirs == {DataDir, TmpDir}
Volumes == {"vol1", "vol2"}
EmptyObjectText == <<"{", "}">>    \* the literal "{}"

VARIABLES
    env,          \* the deployment: backend, directory of dbPath, volume of DataDir
    files,        \* path -> text, for the files (MemFs: Map entries) that exist
    dirs,         \* directories that exist
    epoch,        \* number of process restarts so far
    ncalls,       \* calls made so far: [total, overlapping]
    pc,           \* where each caller's CRUD call is suspended
    op,           \* the call: [name, roleId, roleData]
    buf,          \* the text fs.read resolved to, until readDb parses it
    snap,         \* the schema readDb returned to the call
    wr,           \* the pending fs.write: [content, mode, err]
    ret,          \* the settled promise: [status, kind, bool, roles, id]
    alone,        \* no other call was in progress during this call
    seen,         \* the callers whose settled call had settled when this call began
    nwrites,      \* fs.write invocations of this call
    recovered,    \* readDb of this call caught a parse failure
    lastWriter,   \* the caller whose write last replaced the database file
    pred,         \* the caller whose call settled last before this call began,
                  \* nothing being in progress then ("none" otherwise)
    lastSettled,  \* the caller whose call settled last
    refMap        \* the reference map the calls so far amount to: [valid, roles]

vars == <<env, files, dirs, epoch, ncalls, pc, op, buf, snap, wr, ret, alone, seen,
          nwrites, recovered, lastWriter, pred, lastSettled, refMap>>

\* constructor(dbPath, fs)
dbPath == <<env.dbDir, "db.json", 0>>

\* dirname(path)
DirName(path) == path[1]

VolumeOf(dir) == IF dir = TmpDir THEN "vol1" ELSE env.dataVol

Exists(fls, path) == path \in DOMAIN fls

Without(fls, path) == [p \in DOMAIN fls \ {path} |-> fls[p]]

\* Mutant of RealFsRead: every read ends as ENOENT does.
RealFsReadEmpty(fls, path) == EmptyObjectText

\* RealFs.read: the file's text, "{}" on ENOENT.
RealFsRead(fls, path) == IF Exists(fls, path) THEN fls[path] ELSE EmptyObjectText

\* MemFs.read: files.get(path) ?? "{}"
MemFsRead(fls, path) == IF Exists(fls, path) THEN fls[path] ELSE EmptyObjectText

\* Fs.read of the backend the FileDB was constructed with.
FsRead(fls, path) ==
    IF env.backend = "mem" THEN MemFsRead(fls, path) ELSE RealFsRead(fls, path)

\* MemFs.write: files.set(path, content)
MemFsWrite(fls, path, content) == (path :> content) @@ fls

\* Mutant of StagingName: the content is written in place, into the target.
StagingInPlace(c) == dbPath

\* tmp.fileSync(): a fresh, empty file in the system temporary directory.
StagingName(c) == <<TmpDir, c, epoch>>

TmpFileSync(fls, name) == (name :> <<>>) @@ fls

\* One step of writeFile(tempFile.name, content): the next ChunkLen tokens.
WriteFileChunk(fls, name, content) ==
    LET n == Len(fls[name]) + ChunkLen
    IN  (name :> SubSeq(content, 1, IF n < Len(content) THEN n ELSE Len(content)))
        @@ fls

\* rename(from, to) within one volume: to now names from's file, atomically.
RenameFile(fls, from, to) ==
    [p \in (DOMAIN fls \ {from}) \cup {to} |-> IF p = to THEN fls[from] ELSE fls[p]]

\* Mutant of RenameFails: the target was unlinked before the rename was tried.
RenameFailsUnlinked(fls, from, to) == IF Exists(fls, to) THEN Without(fls, to) ELSE fls

\* rename(from, to) rejected (EXDEV across volumes, or another error).
RenameFails(fls, from, to) == fls

\* Mutant of RemoveCallback: the temporary file is left where it is.
RemoveCallbackForgotten(fls, name) == fls

\* tempFile.removeCallback(): unlink the temporary file, if it is still there.
RemoveCallback(fls, name) == IF Exists(fls, name) THEN Without(fls, name) ELSE fls

\* ---------------------------------------------------------------- FileDB
NoRole == [id |-> Undef, name |-> Undef]
NoOp == [name |-> "none", roleId |-> "undefined", roleData |-> NoRole]
NoWrite == [content |-> <<>>, mode |-> "none", err |-> "none"]
NoRet == [status |-> "none", kind |-> "void", bool |-> FALSE, roles |-> <<>>, id |-> Undef]

Void == [status |-> "ok", kind |-> "void", bool |-> FALSE, roles |-> <<>>, id |-> Undef]
Rejected == [status |-> "error", kind |-> "void", bool |-> FALSE, roles |-> <<>>, id |-> Undef]
Bool(b) ==
    [status |-> "ok", kind |-> "bool", bool |-> b, roles |-> <<>>, id |-> Undef]

\* Mutant of ListRoles: the last property is left out.
ListRolesButLast(d) ==
    [status |-> "ok", kind |-> "list", bool |-> FALSE,
     roles |-> [i \in 1..(Len(d.roles) - 1) |-> d.roles[i].v], id |-> Undef]

\* listRoles: Object.values(db.roles ?? {})
ListRoles(d) ==
    [status |-> "ok", kind |-> "list", bool |-> FALSE,
     roles |-> [i \in 1..Len(d.roles) |-> d.roles[i].v], id |-> Undef]

\* Mutant of GetRole: a missing id yields the first role stored, if any.
GetRoleAny(d, roleId) ==
    IF d.roles # <<>>
      THEN [status |-> "ok", kind |-> "role", bool |-> FALSE,
            roles |-> <<d.roles[IF HasKey(d.roles, roleId)
                                  THEN IndexOf(d.roles, roleId) ELSE 1].v>>,
            id |-> Undef]
      ELSE [status |-> "ok", kind |-> "null", bool |-> FALSE, roles |-> <<>>,
            id |-> Undef]

\* getRole: db.roles?.[roleId] ?? null
GetRole(d, roleId) ==
    IF d.hasRoles /\ HasKey(d.roles, roleId)
      THEN [status |-> "ok", kind |-> "role", bool |-> FALSE,
            roles |-> <<d.roles[IndexOf(d.roles, roleId)].v>>, id |-> Undef]
      ELSE [status |-> "ok", kind |-> "null", bool |-> FALSE, roles |-> <<>>, id |-> Undef]

\* Mutant of UpsertRole: db.roles = { [roleData.id]: roleData }
UpsertRoleAlone(d, roleData) ==
    [hasRoles |-> TRUE,
     roles |-> <<[k |-> PropertyKey(roleData.id), v |-> roleData]>>]

\* upsertRole, up to writeDb: db.roles ||= {}; db.roles[roleData.id] = roleData
UpsertRole(d, roleData) ==
    [hasRoles |-> TRUE, roles |-> SetProp(d.roles, PropertyKey(roleData.id), roleData)]

\* Mutant of DeleteMisses: the guard is gone.
DeleteNeverMisses(d, roleId) == FALSE

\* deleteRole: the guard !db.roles || !db.roles[roleId]
DeleteMisses(d, roleId) == ~d.hasRoles \/ ~HasKey(d.roles, roleId)

\* Mutant of DeleteRole: db.roles = {}
DeleteRoleAll(d, roleId) == [d EXCEPT !.roles = <<>>]

\* deleteRole, up to writeDb: delete db.roles[roleId]
DeleteRole(d, roleId) == [d EXCEPT !.roles = DeleteProp(d.roles, roleId)]

\* The calls a client makes: roles with and without an id, two roles of one id.
RoleArgs ==
    {[id |-> "a", name |-> "n2"], [id |-> "b", name |-> Undef],
     [id |-> Undef, name |-> "n1"]}

Calls ==
    {[name |-> "list", roleId |-> "undefined", roleData |-> NoRole]}
    \cup {[name |-> n, roleId |-> k, roleData |-> NoRole] :
              n \in {"get", "delete"}, k \in Ids}
    \cup {[name |-> "upsert", roleId |-> "undefined", roleData |-> r] : r \in RoleArgs}

Active(c) == pc[c] \notin {"idle", "done"}

\* Callers are interchangeable: another caller than the first calls only once
\* the first has called (since the process started).
Earlier(c) == IF c = "p2" THEN {"p1"} ELSE {}

\* The reference map id -> role after the call of c settled with r: an upsert
\* that resolved puts its role under its id, a delete that resolved removes its
\* id, a rejected call changes nothing.  It is followed only while every call
\* ran alone, to its end, with an id.  Like alone, seen, pred and lastSettled it
\* observes the calls: no step of the program reads it.
RefAfter(c, r) ==
    IF ~refMap.valid \/ ~alone[c]
         \/ (op[c].name = "upsert" /\ op[c].roleData.id = Undef)
      THEN [valid |-> FALSE, roles |-> {}]
    ELSE IF r.status # "ok" THEN refMap
    ELSE IF op[c].name = "upsert"
      THEN [valid |-> TRUE,
            roles |-> {e \in refMap.roles : e[1] # op[c].roleData.id}
                      \cup {<<op[c].roleData.id, op[c].roleData>>}]
    ELSE IF op[c].name = "delete"
      THEN [valid |-> TRUE, roles |-> {e \in refMap.roles : e[1] # op[c].roleId}]
    ELSE refMap

\* The promise of the call settles.
Settle(c, r, fls) ==
    /\ pc' = [pc EXCEPT ![c] = "done"]
    /\ ret' = [ret EXCEPT ![c] = r]
    /\ files' = fls
    /\ wr' = [wr EXCEPT ![c] = NoWrite]
    /\ lastSettled' = c
    /\ refMap' = RefAfter(c, r)
    /\ UNCHANGED <<nwrites, lastWriter>>

\* writeDb(db): content = JSON.stringify(db), then fs.write(dbPath, content) runs
\* up to its first await: MemFs.write has none, RealFs.write awaits mkdir.
WriteDb(c, content, mode, fls) ==
    /\ wr' = [wr EXCEPT ![c] = [content |-> content, mode |-> mode, err |-> "none"]]
    /\ nwrites' = [nwrites EXCEPT ![c] = @ + 1]
    /\ UNCHANGED <<ret, lastSettled, refMap>>
    /\ IF env.backend = "mem"
         THEN /\ files' = MemFsWrite(fls, dbPath, content)
              /\ lastWriter' = c
              /\ pc' = [pc EXCEPT ![c] = "wrote"]
         ELSE /\ files' = fls
              /\ UNCHANGED lastWriter
              /\ pc' = [pc EXCEPT ![c] = "mkdir"]

\* Mutant of RunOp: listRoles writes the schema it has read back.
RunOpWriteBack(c, d, fls) ==
    /\ snap' = [snap EXCEPT ![c] = d]
    /\ CASE op[c].name = "list" -> WriteDb(c, Stringify(d), "final", fls)
         [] op[c].name = "get" -> Settle(c, GetRole(d, op[c].roleId), fls)
         [] op[c].name = "upsert" ->
                WriteDb(c, Stringify(UpsertRole(d, op[c].roleData)), "final", fls)
         [] op[c].name = "delete" ->
                IF DeleteMisses(d, op[c].roleId)
                  THEN Settle(c, Bool(FALSE), fls)
                  ELSE WriteDb(c, Stringify(DeleteRole(d, op[c].roleId)), "final", fls)

\* The body of listRoles, getRole, upsertRole or deleteRole after
\* "const db = await this.readDb()" resolved to d.
RunOp(c, d, fls) ==
    /\ snap' = [snap EXCEPT ![c] = d]
    /\ CASE op[c].name = "list" -> Settle(c, ListRoles(d), fls)
         [] op[c].name = "get" -> Settle(c, GetRole(d, op[c].roleId), fls)
         [] op[c].name = "upsert" ->
                WriteDb(c, Stringify(UpsertRole(d, op[c].roleData)), "final", fls)
         [] op[c].name = "delete" ->
                IF DeleteMisses(d, op[c].roleId)
                  THEN Settle(c, Bool(FALSE), fls)
                  ELSE WriteDb(c, Stringify(DeleteRole(d, op[c].roleId)), "final", fls)

\* What follows "await this.fs.write(...)": a rejection propagates through
\* writeDb and readDb to the caller; readDb's recovery write returns emptyDb to
\* the operation; the operation's own write ends it.
AfterWrite(c, fls) ==
    IF wr[c].err # "none"
      THEN Settle(c, Rejected, fls) /\ UNCHANGED snap
    ELSE IF wr[c].mode = "recover"
      THEN RunOp(c, emptyDb, fls)
    ELSE /\ Settle(c, IF op[c].name = "delete" THEN Bool(TRUE) ELSE Void, fls)
         /\ UNCHANGED snap

\* A client calls a method of the FileDB (having taken the result of its call
\* before, if any): the call runs to its first await, "await
\* this.fs.read(this.dbPath)"; MemFs.read has read the Map by then.
Start(c, o) ==
    /\ ~Active(c)
    /\ \A e \in Earlier(c) : pc[e] # "idle"
    /\ ncalls.total < MaxCalls
    /\ (\E e \in Procs : Active(e)) => ncalls.overlapping < MaxOverlap
    /\ ncalls' = [total |-> ncalls.total + 1,
                  overlapping |-> ncalls.overlapping
                                  + (IF \E e \in Procs : Active(e) THEN 1 ELSE 0)]
    /\ op' = [op EXCEPT ![c] = o]
    /\ alone' = [d \in Procs |-> IF d = c THEN \A e \in Procs \ {c} : ~Active(e)
                                 ELSE alone[d] /\ ~Active(d)]
    /\ seen' = [d \in Procs |-> IF d = c THEN {e \in Procs \ {c} : pc[e] = "done"}
                                ELSE seen[d] \ {c}]
    /\ IF env.backend = "mem"
         THEN /\ buf' = [buf EXCEPT ![c] = FsRead(files, dbPath)]
              /\ pc' = [pc EXCEPT ![c] = "parse"]
         ELSE /\ pc' = [pc EXCEPT ![c] = "read"]
              /\ UNCHANGED buf
    /\ snap' = [snap EXCEPT ![c] = EmptyObject]
    /\ ret' = [ret EXCEPT ![c] = NoRet]
    /\ nwrites' = [nwrites EXCEPT ![c] = 0]
    /\ recovered' = [recovered EXCEPT ![c] = FALSE]
    /\ pred' = [d \in Procs |->
                 IF d = c THEN (IF \E e \in Procs : Active(e) THEN "none" ELSE lastSettled)
                 ELSE IF pred[d] = c THEN "none" ELSE pred[d]]
    /\ UNCHANGED <<env, files, dirs, epoch, wr, lastWriter, lastSettled, refMap>>

\* RealFs.read: readFile completes.
ReadFile(c) ==
    /\ pc[c] = "read"
    /\ buf' = [buf EXCEPT ![c] = RealFsRead(files, dbPath)]
    /\ pc' = [pc EXCEPT ![c] = "parse"]
    /\ UNCHANGED <<env, files, dirs, epoch, ncalls, op, snap, wr, ret, alone, seen, nwrites,
                   recovered, lastWriter, pred, lastSettled, refMap>>

\* readDb resumes with the content: JSON.parse, and on its failure writeDb(emptyDb).
ReadDb(c) ==
    /\ pc[c] = "parse"
    /\ buf' = [buf EXCEPT ![c] = <<>>]
    /\ LET p == Parse(buf[c])
       IN  IF p.ok
             THEN RunOp(c, p.db, files) /\ UNCHANGED recovered
             ELSE /\ recovered' = [recovered EXCEPT ![c] = TRUE]
                  /\ WriteDb(c, Stringify(emptyDb), "recover", files)
                  /\ UNCHANGED snap
    /\ UNCHANGED <<env, dirs, epoch, ncalls, op, alone, seen, pred>>

\* RealFs.write: mkdir(dir, {recursive: true}) completes, then tmp.fileSync().
Mkdir(c) ==
    /\ pc[c] = "mkdir"
    /\ dirs' = dirs \cup {DirName(dbPath)}
    /\ files' = TmpFileSync(files, StagingName(c))
    /\ pc' = [pc EXCEPT ![c] = "writeFile"]
    /\ UNCHANGED <<env, epoch, ncalls, op, buf, snap, wr, ret, alone, seen, nwrites, recovered,
                   lastWriter, pred, lastSettled, refMap>>

\* RealFs.write: writeFile puts the next chunk into the temporary file; with the
\* last chunk it resolves and rename is issued.
WriteFile(c) ==
    /\ pc[c] = "writeFile"
    /\ files' = WriteFileChunk(files, StagingName(c), wr[c].content)
    /\ pc' = [pc EXCEPT ![c] = IF files'[StagingName(c)] = wr[c].content
                                 THEN "rename" ELSE "writeFile"]
    /\ UNCHANGED <<env, dirs, epoch, ncalls, op, buf, snap, wr, ret, alone, seen, nwrites,
                   recovered, lastWriter, pred, lastSettled, refMap>>

\* RealFs.write: writeFile rejects (ENOSPC, EIO, ...) part way.
WriteFileFail(c) ==
    /\ pc[c] = "writeFile"
    /\ wr' = [wr EXCEPT ![c].err = "writeFile"]
    /\ pc' = [pc EXCEPT ![c] = "finally"]
    /\ UNCHANGED <<env, files, dirs, epoch, ncalls, op, buf, snap, ret, alone, seen, nwrites,
                   recovered, lastWriter, pred, lastSettled, refMap>>

SameVolume(from, to) == VolumeOf(DirName(from)) = VolumeOf(DirName(to))

\* RealFs.write: rename(tempFile.name, path) succeeds.
Rename(c) ==
    /\ pc[c] = "rename"
    /\ SameVolume(StagingName(c), dbPath)
    /\ DirName(dbPath) \in dirs
    /\ files' = RenameFile(files, StagingName(c), dbPath)
    /\ lastWriter' = c
    /\ pc' = [pc EXCEPT ![c] = "finally"]
    /\ UNCHANGED <<env, dirs, epoch, ncalls, op, buf, snap, wr, ret, alone, seen, nwrites,
                   recovered, pred, lastSettled, refMap>>

\* RealFs.write: rename rejects: always across volumes (EXDEV), possibly otherwise.
RenameFail(c) ==
    /\ pc[c] = "rename"
    /\ files' = RenameFails(files, StagingName(c), dbPath)
    /\ wr' = [wr EXCEPT ![c].err = "rename"]
    /\ pc' = [pc EXCEPT ![c] = "finally"]
    /\ UNCHANGED <<env, dirs, epoch, ncalls, op, buf, snap, ret, alone, seen, nwrites,
                   recovered, lastWriter, pred, lastSettled, refMap>>

\* RealFs.write: the finally block, then the awaiting writeDb caller resumes.
Finally(c) ==
    /\ pc[c] = "finally"
    /\ AfterWrite(c, RemoveCallback(files, StagingName(c)))
    /\ UNCHANGED <<env, dirs, epoch, ncalls, op, buf, alone, seen, recovered, pred>>

\* MemFs.write has resolved: the awaiting writeDb caller resumes.
MemWritten(c) ==
    /\ pc[c] = "wrote"
    /\ AfterWrite(c, files)
    /\ UNCHANGED <<env, dirs, epoch, ncalls, op, buf, alone, seen, recovered, pred>>

\* The process dies with calls in flight and is started again: the files stay
\* (a MemFs dies with its process, so this is the durable backend only).
Crash ==
    /\ env.backend = "real"
    /\ epoch < MaxCrashes
    /\ \E c \in Procs : Active(c)
    /\ epoch' = epoch + 1
    /\ pc' = [c \in Procs |-> "idle"]
    /\ op' = [c \in Procs |-> NoOp]
    /\ buf' = [c \in Procs |-> <<>>]
    /\ snap' = [c \in Procs |-> EmptyObject]
    /\ wr' = [c \in Procs |-> NoWrite]
    /\ ret' = [c \in Procs |-> NoRet]
    /\ alone' = [c \in Procs |-> TRUE]
    /\ seen' = [c \in Procs |-> {}]
    /\ nwrites' = [c \in Procs |-> 0]
    /\ recovered' = [c \in Procs |-> FALSE]
    /\ lastWriter' = "none"
    /\ pred' = [c \in Procs |-> "none"]
    /\ lastSettled' = "none"
    /\ refMap' = [valid |-> FALSE, roles |-> {}]
    /\ UNCHANGED <<env, files, dirs, ncalls>>

\* What the database file may hold when the FileDB is constructed.
RoleA == [id |-> "a", name |-> "n1"]

InitTexts ==
    { Stringify(emptyDb),
      Stringify(UpsertRole(emptyDb, RoleA)),
      SubSeq(Stringify(UpsertRole(emptyDb, RoleA)), 1, 5),
      <<"garbage">> }

Envs ==
    {[backend |-> "mem", dbDir |-> DataDir, dataVol |-> "vol1"]}
    \cup {[backend |-> "real", dbDir |-> DataDir, dataVol |-> v] : v \in Volumes}

Init ==
    /\ env \in Envs
    /\ \/ files = << >> /\ dirs = {TmpDir}
       \/ \E t \in InitTexts : files = (dbPath :> t) /\ dirs = Dirs
    /\ epoch = 0
    /\ ncalls = [total |-> 0, overlapping |-> 0]
    /\ pc = [c \in Procs |-> "idle"]
    /\ op = [c \in Procs |-> NoOp]
    /\ buf = [c \in Procs |-> <<>>]
    /\ snap = [c \in Procs |-> EmptyObject]
    /\ wr = [c \in Procs |-> NoWrite]
    /\ ret = [c \in Procs |-> NoRet]
    /\ alone = [c \in Procs |-> TRUE]
    /\ seen = [c \in Procs |-> {}]
    /\ nwrites = [c \in Procs |-> 0]
    /\ recovered = [c \in Procs |-> FALSE]
    /\ lastWriter = "none"
    /\ pred = [c \in Procs |-> "none"]
    /\ lastSettled = "none"
    /\ refMap = [valid |-> files = << >>, roles |-> {}]

Next ==
    \/ \E c \in Procs, o \in Calls : Start(c, o)
    \/ \E c \in Procs : ReadFile(c)
    \/ \E c \in Procs : ReadDb(c)
    \/ \E c \in Procs : Mkdir(c)
    \/ \E c \in Procs : WriteFile(c)
    \/ \E c \in Procs : WriteFileFail(c)
    \/ \E c \in Procs : Rename(c)
    \/ \E c \in Procs : RenameFail(c)
    \/ \E c \in Procs : Finally(c)
    \/ \E c \in Procs : MemWritten(c)
    \/ Crash

Spec == Init /\ [][Next]_vars

\* RealFs.write: rename rejects with EXDEV, the two paths being on two volumes.
RenameExdev(c) == ~SameVolume(StagingName(c), dbPath) /\ RenameFail(c)

\* The same program on storage that never fails: no crash, writeFile always
\* succeeds, and rename rejects only where the file system must reject it.
NextNoFault ==
    \/ \E c \in Procs, o \in Calls : Start(c, o)
    \/ \E c \in Procs : ReadFile(c)
    \/ \E c \in Procs : ReadDb(c)
    \/ \E c \in Procs : Mkdir(c)
    \/ \E c \in Procs : WriteFile(c)
    \/ \E c \in Procs : Rename(c)
    \/ \E c \in Procs : RenameExdev(c)
    \/ \E c \in Procs : Finally(c)
    \/ \E c \in Procs : MemWritten(c)

SpecNoFault == Init /\ [][NextNoFault]_vars

\* ---------------------------------------------------------------- claims
\* What a direct read of the backing resource returns, and its decoding.
Blob == FsRead(files, dbPath)
Stored == Parse(Blob)

\* The entries of an object, as a set of <<key, value>> pairs.
Entries(roles) == {<<roles[i].k, roles[i].v>> : i \in 1..Len(roles)}

Found(r) ==
    [status |-> "ok", kind |-> "role", bool |-> FALSE, roles |-> <<r>>, id |-> Undef]

UpsertDone(c) ==
    pc[c] = "done" /\ op[c].name = "upsert" /\ ret[c].status = "ok"

C2_LastWriterWins ==
    \A a \in Procs : \A b \in Procs \ {a} :
        (UpsertDone(a) /\ UpsertDone(b) /\ snap[a] = snap[b] /\ lastWriter = b)
        => LET kb == PropertyKey(op[b].roleData.id)
               ka == PropertyKey(op[a].roleData.id)
           IN  /\ Stored.ok
               /\ Entries(Stored.db.roles)
                    = {e \in Entries(snap[b].roles) : e[1] # kb}
                      \cup {<<kb, op[b].roleData>>}
               /\ (ka # kb /\ ~HasKey(snap[a].roles, ka))
                    => ~HasKey(Stored.db.roles, ka)

\* C2 witness: both calls resolved, and the first writer's role is lost.
C2_Witness ==
    \E a \in Procs : \E b \in Procs \ {a} :
        /\ UpsertDone(a) /\ UpsertDone(b) /\ snap[a] = snap[b] /\ lastWriter = b
        /\ ~alone[a] /\ ~alone[b]
        /\ snap[a].roles # <<>>
        /\ PropertyKey(op[a].roleData.id) # PropertyKey(op[b].roleData.id)
        /\ ~HasKey(snap[a].roles, PropertyKey(op[a].roleData.id))
        /\ ~HasKey(Stored.db.roles, PropertyKey(op[a].roleData.id))

C4_CorruptListHeals ==
    \A c \in Procs :
        (pc[c] = "done" /\ op[c].name = "list" /\ recovered[c])
        => /\ ret[c] = ListRoles(emptyDb)
           /\ (alone[c] /\ lastWriter = c) => Blob = Stringify(emptyDb)

\* C5 (as claimed): a call whose readDb caught a parse failure does not reject.
C5_DecodeFailureNotSurfaced ==
    \A c \in Procs : (pc[c] = "done" /\ recovered[c]) => ret[c].status = "ok"

RenameRejected(c) ==
    pc[c] = "rename" /\ pc'[c] = "finally" /\ wr'[c].err = "rename"

RenameDone(c) ==
    pc[c] = "rename" /\ pc'[c] = "finally" /\ wr'[c].err = "none"

\* C6: in RealFs.write, the step in which rename rejects leaves what a read of
\* the target returns as it was, and so does every step but a rename that
\* succeeds: after the failure a read returns what it returned before the write.
C6_FailedRenameKeepsContent ==
    [][/\ \A c \in Procs :
             RenameRejected(c) => RealFsRead(files', dbPath') = RealFsRead(files, dbPath)
       /\ (env.backend = "real"
             /\ RealFsRead(files', dbPath') # RealFsRead(files, dbPath))
            => \E c \in Procs : RenameDone(c)]_vars

\* C6 witness: rename has rejected with the staging file fully written, and the
\* target holds its previous content.
C6_Witness ==
    \E c \in Procs :
        /\ pc[c] = "finally" /\ wr[c].err = "rename"
        /\ Exists(files, StagingName(c))
        /\ files[StagingName(c)] = wr[c].content
        /\ Exists(files, dbPath) /\ Stored.ok /\ Blob # wr[c].content

\* C7 (as claimed): a staging file is on the volume of the target path.
C7_StagingOnTargetVolume ==
    \A c \in Procs :
        Exists(files, StagingName(c)) => SameVolume(StagingName(c), dbPath)

\* C8: outside the try block of RealFs.write (before tmp.fileSync(), and once
\* the finally block has run, whether writeFile rejected, rename rejected or
\* both succeeded) the call has no staging file.
C8_StagingReleased ==
    \A c \in Procs :
        pc[c] \notin {"writeFile", "rename", "finally"}
        => ~Exists(files, StagingName(c))

\* C8 witness: a call on the durable backend was rejected by its write, and
\* another one went through.
C8_Witness ==
    /\ env.backend = "real"
    /\ \E c \in Procs : pc[c] = "done" /\ ret[c].status = "error"
    /\ \E c \in Procs : pc[c] = "done" /\ ret[c].status = "ok" /\ nwrites[c] > 0

\* C9 (as claimed): every entry (k, v) of the stored schema has v.id = k.
C9_IdIsKey ==
    Stored.ok => \A i \in 1..Len(Stored.db.roles) :
                    Stored.db.roles[i].v.id = Stored.db.roles[i].k

DeleteMissDone(c) ==
    /\ pc[c] = "done" /\ op[c].name = "delete" /\ ~recovered[c]
    /\ ~HasKey(snap[c].roles, op[c].roleId)

NotFound ==
    [status |-> "ok", kind |-> "null", bool |-> FALSE, roles |-> <<>>, id |-> Undef]

\* c's call began when e's call had settled last and nothing was in progress,
\* and nothing else was in progress until c's call settled.
DirectlyAfter(c, e) == pc[c] = "done" /\ pred[c] = e /\ alone[c]

Range(s) == {s[i] : i \in 1..Len(s)}

C13_UpsertReturnsId ==
    \A c \in Procs :
        (UpsertDone(c) /\ op[c].roleData.id # Undef)
        => ret[c].id = op[c].roleData.id

\* Nothing has happened since c's call settled, and nothing is in progress.
Quiet(c) == lastSettled = c /\ \A e \in Procs : ~Active(e)

GetMissDone(c) ==
    /\ pc[c] = "done" /\ op[c].name = "get" /\ ~recovered[c]
    /\ ~HasKey(snap[c].roles, op[c].roleId)

WriteResolved(c) ==
    pc[c] = "wrote" \/ (pc[c] = "finally" /\ wr[c].err = "none")

\* C15: on both backends, when fs.write(dbPath, text) has resolved and no
\* other write has replaced the file since, the file holds text; and an
\* fs.read(dbPath) with no write in progress resolves to the text the file
\* holds, and to the two characters {} when the file does not exist.
C15_BlobRoundTrip ==
    \A c \in Procs :
        /\ (WriteResolved(c) /\ lastWriter = c)
           => (dbPath \in DOMAIN files /\ files[dbPath] = wr[c].content)
        /\ (pc[c] = "parse" /\ alone[c])
           => buf[c] = IF dbPath \in DOMAIN files THEN files[dbPath] ELSE <<"{", "}">>

\* C15 witness: on the durable backend a read has resolved to the text that the
\* write of the call before it put there.
C15_Witness ==
    \E g \in Procs : \E u \in Procs \ {g} :
        /\ env.backend = "real"
        /\ pc[g] = "parse" /\ alone[g] /\ pred[g] = u
        /\ ret[u].status = "ok" /\ nwrites[u] > 0 /\ lastWriter = u
        /\ buf[g] = files[dbPath]

\* An upsertRole or deleteRole of c that ran alone has rejected.
MutationRejected(c) ==
    /\ pc[c] = "done" /\ op[c].name \in {"upsert", "delete"}
    /\ ret[c] = Rejected /\ alone[c]

\* C16: a call whose fs.write rejected rejects; after an upsertRole or
\* deleteRole that ran alone and rejected, the file still decodes to the schema
\* the call was given, and the listRoles() that directly follows resolves to
\* the roles of that schema (to no roles, if it resolves, where the call was
\* given a file that does not decode).
C16_FailedWriteKeepsState ==
    /\ [](\A c \in Procs :
            /\ (MutationRejected(c) /\ ~recovered[c] /\ Quiet(c))
               => (Stored.ok /\ Stored.db = snap[c])
            /\ \A g \in Procs \ {c} :
                 (MutationRejected(c) /\ DirectlyAfter(g, c) /\ op[g].name = "list")
                 => IF recovered[c]
                      THEN ret[g].status = "ok" => ret[g].roles = <<>>
                      ELSE ret[g] = ListRoles(snap[c]))
    /\ [][\A c \in Procs :
            (/\ pc[c] \in {"finally", "wrote"} /\ wr[c].err # "none"
             /\ pc'[c] # pc[c] /\ epoch' = epoch)
            => (pc'[c] = "done" /\ ret'[c] = Rejected)]_vars

\* C16 witness: an upsertRole that was given stored roles has rejected, and the
\* listRoles() after it has resolved to those roles.
C16_Witness ==
    \E c \in Procs : \E g \in Procs \ {c} :
        /\ MutationRejected(c) /\ ~recovered[c] /\ op[c].name = "upsert"
        /\ snap[c].roles # <<>>
        /\ DirectlyAfter(g, c) /\ op[g].name = "list"
        /\ ret[g].roles # <<>>

\* The entries of an object under other keys than k.
Others(roles, k) == {e \in Entries(roles) : e[1] # k}

\* The key that c's upsertRole or deleteRole is about.
KeyOf(c) ==
    IF op[c].name = "upsert" THEN PropertyKey(op[c].roleData.id) ELSE op[c].roleId

\* An upsertRole or deleteRole of c ran alone and resolved, and nothing has
\* happened since.
MutationDone(c) ==
    /\ pc[c] = "done" /\ op[c].name \in {"upsert", "delete"}
    /\ ret[c].status = "ok" /\ alone[c] /\ Quiet(c)

\* C17: after an upsertRole(r) or deleteRole(id) that ran alone and resolved,
\* the stored schema has, under every other key, exactly the entries of the
\* schema the call was given; under the call's own key it has r and nothing
\* else (upsert), or nothing (delete).
C17_OnlyOwnKey ==
    \A c \in Procs :
        MutationDone(c)
        => /\ Stored.ok
           /\ Others(Stored.db.roles, KeyOf(c)) = Others(snap[c].roles, KeyOf(c))
           /\ Len(Stored.db.roles) = Cardinality(Entries(Stored.db.roles))
           /\ IF op[c].name = "upsert"
                THEN Entries(Stored.db.roles) \ Others(Stored.db.roles, KeyOf(c))
                         = {<<KeyOf(c), op[c].roleData>>}
                ELSE ~HasKey(Stored.db.roles, KeyOf(c))

\* C17 witness: a deleteRole has removed its entry while a role is stored under
\* another id.
C17_Witness ==
    \E c \in Procs :
        /\ MutationDone(c) /\ op[c].name = "delete" /\ ret[c] = Bool(TRUE)
        /\ Others(Stored.db.roles, KeyOf(c)) # {}

\* readDb of c caught a parse failure, and the rename of its recovery write was
\* the last to replace the database file.
RecoveryReplaced(c) ==
    /\ pc[c] = "finally" /\ wr[c].mode = "recover" /\ wr[c].err = "none"
    /\ lastWriter = c

\* C18 (as claimed): the recovery write of readDb never replaces what an
\* upsertRole or deleteRole has written that wrote and resolved after the call
\* of that readDb began (and so after it read the text that does not parse).
C18_RecoveryKeepsWrites ==
    \A c \in Procs : \A u \in Procs \ {c} :
        ~(/\ RecoveryReplaced(c)
          /\ (UpsertDone(u) \/ (pc[u] = "done" /\ ret[u] = Bool(TRUE)))
          /\ u \notin seen[c])

\* C19 (as claimed): when deleteRole(id) has resolved to true and the one other
\* call ever made, which was no upsertRole of a role with that id, has settled
\* too, a getRole(id) of the stored schema finds nothing.
C19_DeletedStaysDeleted ==
    \A d \in Procs : \A e \in Procs \ {d} :
        (/\ pc[d] = "done" /\ op[d].name = "delete" /\ ret[d] = Bool(TRUE)
         /\ pc[e] = "done" /\ ncalls.total = 2
         /\ ~(op[e].name = "upsert" /\ op[e].roleData.id = op[d].roleId))
        => GetRole(Stored.db, op[d].roleId) = NotFound

\* c's call is a listRoles or getRole whose readDb caught no parse failure.
ReadOnly(c) == op[c].name \in {"list", "get"} /\ ~recovered[c]

\* C20: a listRoles or getRole whose readDb caught no parse failure resolves
\* having invoked no fs.write, and no step of it, from the call to its
\* resolution, changes a file or a directory, or creates the missing file.
C20_ReadsDoNotWrite ==
    /\ [](\A c \in Procs :
            (pc[c] = "done" /\ ReadOnly(c))
            => (nwrites[c] = 0 /\ ret[c].status = "ok"))
    /\ [][\A c \in Procs :
            (pc'[c] # pc[c] /\ pc'[c] # "idle" /\ ReadOnly(c)')
            => (files' = files /\ dirs' = dirs)]_vars

\* C20 witness: a listRoles has resolved, alone, on a missing file, which is
\* still missing.
C20_Witness ==
    \E c \in Procs :
        /\ pc[c] = "done" /\ op[c].name = "list" /\ ~recovered[c]
        /\ alone[c] /\ Quiet(c)
        /\ dbPath \notin DOMAIN files

=============================================================================
